---- MODULE Spec2Model ----
(***************************************************************************)
(* A model of `ge` (ocxtal/ge): the half-diff patch builder of             *)
(* src/src/patch.rs and the hit algebra of src/src/hunks.rs.               *)
(*                                                                         *)
(* Strings are sequences of one-character strings, so that prefix tests,   *)
(* trimming, splitting and number formatting are computed as the code      *)
(* computes them.  A text (a String holding several lines) is a sequence   *)
(* of lines; every line of the model is free of "\n" and "\r", so that     *)
(* joining with "\n" and str::lines() are inverse to each other.           *)
(***************************************************************************)
EXTENDS Integers, Sequences, FiniteSets, TLC

(***************************************************************************)
(* Bounds of the model.                                                    *)
(***************************************************************************)
\* number of lines of git-grep output given to PatchBuilder::from_grep
MaxGrepLines == 2
\* largest line number in the git-grep output
MaxLine == 2
\* number of lines of the buffer the editor hands back
MaxEditLines == 4
\* number of hits of a GrepResult
MaxHits == 3
\* largest `from` of a hit
MaxFrom == 3
\* largest n_lines of a hit
MaxNLines == 3

(***************************************************************************)
(* Program constants.                                                      *)
(***************************************************************************)
\* patch.rs:196, 211: `i == 16`, the last iteration of `for i in 0..17`
CollisionBound == 16

(***************************************************************************)
(* String helpers (std::str).                                              *)
(***************************************************************************)
Digits == <<"0", "1", "2", "3", "4", "5", "6", "7", "8", "9">>

IsDigit(c) == \E d \in 1..10 : Digits[d] = c

DigitVal(c) == (CHOOSE d \in 1..10 : Digits[d] = c) - 1

\* str::starts_with
StartsWith(s, p) == Len(p) <= Len(s) /\ SubSeq(s, 1, Len(p)) = p

IsSpace(c) == c = " "

RECURSIVE TrimStart(_)
TrimStart(s) ==
    IF s # <<>> /\ IsSpace(s[1]) THEN TrimStart(Tail(s)) ELSE s

RECURSIVE TrimEnd(_)
TrimEnd(s) ==
    IF s # <<>> /\ IsSpace(s[Len(s)]) THEN TrimEnd(SubSeq(s, 1, Len(s) - 1)) ELSE s

\* str::trim
Trim(s) == TrimEnd(TrimStart(s))

\* `{}` of a usize: the decimal numeral
RECURSIVE FmtNum(_)
FmtNum(n) ==
    IF n < 10 THEN <<Digits[n + 1]>>
    ELSE FmtNum(n \div 10) \o <<Digits[(n % 10) + 1]>>

RECURSIVE DigitsVal(_, _)
DigitsVal(s, acc) ==
    IF s = <<>> THEN acc ELSE DigitsVal(Tail(s), acc * 10 + DigitVal(s[1]))

\* str::parse::<usize>: an optional '+', then one or more decimal digits;
\* -1 stands for Err(ParseIntError)
ParseNum(s) ==
    LET body == IF s # <<>> /\ s[1] = "+" THEN Tail(s) ELSE s
    IN  IF body = <<>> \/ \E k \in 1..Len(body) : ~IsDigit(body[k])
        THEN -1
        ELSE DigitsVal(body, 0)

\* the pattern &[':', '-', '='][..] of parse_grep
IsDelim(c) == c \in {":", "-", "="}

FirstDelim(s) ==
    IF \E k \in 1..Len(s) : IsDelim(s[k])
    THEN CHOOSE k \in 1..Len(s) :
            IsDelim(s[k]) /\ \A j \in 1..(k - 1) : ~IsDelim(s[j])
    ELSE 0

\* l.splitn(3, &[':', '-', '='][..]).collect()
Splitn3(l) ==
    LET p == FirstDelim(l)
        rest == SubSeq(l, p + 1, Len(l))
        q == FirstDelim(rest)
    IN  IF p = 0 THEN <<l>>
        ELSE IF q = 0 THEN <<SubSeq(l, 1, p - 1), rest>>
        ELSE <<SubSeq(l, 1, p - 1), SubSeq(rest, 1, q - 1),
               SubSeq(rest, q + 1, Len(rest))>>

\* self.hunk.split(',').collect()[0]
BeforeComma(s) ==
    IF \E k \in 1..Len(s) : s[k] = ","
    THEN SubSeq(s, 1, (CHOOSE k \in 1..Len(s) :
                          s[k] = "," /\ \A j \in 1..(k - 1) : s[j] # ",") - 1)
    ELSE s

\* String::len of a text: every line carries its "\n"
RECURSIVE ByteLen(_)
ByteLen(text) ==
    IF text = <<>> THEN 0 ELSE Len(text[1]) + 1 + ByteLen(Tail(text))

Repeat(c, n) == [k \in 1..n |-> c]

\* Option<&str>
None == <<>>
Some(s) == <<s>>

(***************************************************************************)
(* State.                                                                  *)
(***************************************************************************)
VARIABLES
    pc,             \* position of main: "parse_grep", "avoid_header",
                    \* "avoid_hunk", "write", "edit", "read", "done"
    header_opt,     \* HalfDiffConfig.header
    hunk_opt,       \* HalfDiffConfig.hunk
    raw,            \* raw.trim().lines(): the output of git grep, by line
    li,             \* parse_grep: index of the next line of raw
    files,          \* PatchBuilder.files: files[id] is the name with that id
    raw_hunks,      \* PatchBuilder.raw_hunks: <<id, pos>> -> lines
    prev_id,        \* parse_grep locals
    prev_pos,
    prev_base_pos,
    header_marker,  \* PatchBuilder.header_marker
    hunk_marker,    \* PatchBuilder.hunk_marker
    header_collision_avoidance,
    hunk_collision_avoidance,
    i,              \* avoid_collision: the loop variable
    built,          \* result of from_grep: "none" while running, "Ok",
                    \* "GrepLine", "LineNumber", "MarkerCollision"
    wi,             \* write_halfdiff: index of the next key
    w_prev_id,      \* write_halfdiff: prev_id
    buf,            \* the half-diff buffer (the editor's file), by line
    kinds,          \* for each line write_halfdiff wrote: what it was written as
    unedited,       \* TRUE while the buffer is as write_halfdiff wrote it
    ri,             \* read_halfdiff: index of the next line of buf
    lines,          \* read_halfdiff: the LineAccumulator
    hunks,          \* read_halfdiff: the HunkAccumulator
    patch,          \* read_halfdiff: the patch, by line
    result,         \* result of read_halfdiff: "none" while running, "Ok",
                    \* "UnknownFile", "panic"
    cur,            \* read_halfdiff: the line the last iteration read
    emitted,        \* the hunks dump_hunk pushed, oldest first
    flushed,        \* the hunks dump_hunk looked up, pushed or not, oldest first
    section,        \* the number of header lines read_halfdiff has accepted
    hpc,            \* position of the hit algebra: "idle", "hits", "done"
    hits,           \* GrepResult.hits
    hits0,          \* GrepResult.hits when the operator was called
    hfiles,         \* GrepResult.files: hfiles[file_id + 1] is the path
    sec,            \* the GrepResult of the secondary pattern: files and hits
    op,             \* the operator called last, with its arguments
    left,           \* the number of operator calls still to come
    head0,          \* TRUE once collect_head(0) was called
    gitems,         \* the lines git grep -z printed: what each of them is
    graw,           \* raw.trim().lines() of from_raw: the lines as text
    gmerge,         \* from_raw: the argument `merge`
    gi,             \* from_raw: index of the next line
    parsed,         \* from_raw: `lines`, the triples parse_line returned
    gres,           \* result of from_raw: "none" while running, "Ok", "panic"
    disk,           \* the lines of the file at each path of hfiles
    ci,             \* collect_hunks: `i`
    cfrom,          \* collect_hunks: `from`
    chunks,         \* collect_hunks: the Vec `hunks`
    cres,           \* result of collect_hunks: "none" while running, "Ok"
    hunk_opts,      \* collect_matches: the HunkOptions, a pattern standing
                    \* for the GrepResult git grep returns for it
    calls           \* collect_matches: the operators called so far

vars == <<pc, header_opt, hunk_opt, raw, li, files, raw_hunks, prev_id,
          prev_pos, prev_base_pos, header_marker, hunk_marker,
          header_collision_avoidance, hunk_collision_avoidance, i, built,
          wi, w_prev_id, buf, kinds, unedited, ri, lines, hunks, patch,
          result, cur, emitted, flushed, section, hpc, hits, hits0, hfiles,
          sec, op, left, head0, gitems, graw, gmerge, gi, parsed, gres,
          disk, ci, cfrom, chunks, cres, hunk_opts, calls>>

rawVars == <<gitems, graw, gmerge, gi, parsed, gres>>
collectVars == <<disk, ci, cfrom, chunks, cres>>
pipeVars == <<hunk_opts, calls>>
hitVars == <<hpc, hits, hits0, hfiles, sec, op, left, head0, rawVars,
             collectVars, pipeVars>>
patchVars == <<pc, header_opt, hunk_opt, raw, li, files, raw_hunks, prev_id,
               prev_pos, prev_base_pos, header_marker, hunk_marker,
               header_collision_avoidance, hunk_collision_avoidance, i, built,
               wi, w_prev_id, buf, kinds, unedited, ri, lines, hunks, patch,
               result, cur, emitted, flushed, section>>
configVars == <<header_opt, hunk_opt, raw>>
grepVars == <<li, files, raw_hunks, prev_id, prev_pos, prev_base_pos>>
markerVars == <<header_marker, hunk_marker, header_collision_avoidance,
                hunk_collision_avoidance>>
writeVars == <<wi, w_prev_id, buf, kinds, unedited>>
readVars == <<ri, lines, hunks, patch, result, cur, emitted, flushed, section>>

(***************************************************************************)
(* Inputs.                                                                 *)
(***************************************************************************)
DefaultHeader == <<"+", "+", "+">>
DefaultHunk == <<"@", "@">>

FileA == <<"a">>
FileB == <<"b">>
FileC == <<"c">>

\* body lines of the searched files: plain ones, ones that collide with a
\* marker once, and ones that collide with every extension of a marker
\* but the last, or with every extension
GrepBodies ==
    { <<"x">>,
      <<"+", "+", "+", "x">>,
      Repeat("+", Len(DefaultHeader) + CollisionBound - 1),
      Repeat("+", Len(DefaultHeader) + CollisionBound),
      <<"@", "@", "y">>,
      Repeat("@", Len(DefaultHunk) + CollisionBound - 1),
      Repeat("@", Len(DefaultHunk) + CollisionBound) }

\* a line of git grep: <filename>:<line number>:<body>
GrepLine(f, ln, body) == f \o <<":">> \o FmtNum(ln) \o <<":">> \o body

\* the line git grep prints between groups of lines
GrepSeparator == <<"-", "-">>

GrepItems ==
    [file : {FileA, FileB}, ln : 1..MaxLine, body : GrepBodies]
        \cup {[file |-> <<>>, ln |-> 0, body |-> <<>>]}

IsSep(it) == it.file = <<>>

FileRank(f) == IF f = FileA THEN 1 ELSE IF f = FileB THEN 2 ELSE 3

\* git grep prints the files in order and the lines of a file in order
Ascending(its) ==
    \A j, k \in DOMAIN its :
        (j < k /\ ~IsSep(its[j]) /\ ~IsSep(its[k])) =>
            \/ FileRank(its[j].file) < FileRank(its[k].file)
            \/ its[j].file = its[k].file /\ its[j].ln < its[k].ln

RenderItems(its) ==
    [k \in DOMAIN its |->
        IF IsSep(its[k]) THEN GrepSeparator
        ELSE GrepLine(its[k].file, its[k].ln, its[k].body)]

GrepOutputs ==
    UNION { { RenderItems(its) : its \in {x \in [1..n -> GrepItems] : Ascending(x)} }
            : n \in 0..MaxGrepLines }

HeaderOpts == {None, Some(DefaultHeader), Some(DefaultHunk)}
HunkOpts == {None, Some(DefaultHunk)}

NewLineAccumulator ==
    [id |-> 0, hunk |-> <<>>, buf |-> <<>>, edited_len |-> 0, pos_diff |-> 0]

NewHunkAccumulator == [header_len |-> 0, buf |-> <<>>]

\* GrepResult { files: Vec::new(), hits: Vec::new() }
NewGrepResult == [files |-> <<>>, hits |-> <<>>]

\* no operator of the hit algebra was called
NoOperator == [name |-> "none"]

\* from_raw is not running
NoRaw ==
    /\ gitems = <<>>
    /\ graw = <<>>
    /\ gmerge = FALSE
    /\ gi = 1
    /\ parsed = <<>>
    /\ gres = "none"

\* HunkOptions without an option
NoOptions ==
    [with |-> None, without |-> None, head |-> None, to |-> None,
     context |-> None, before |-> None, after |-> None]

\* collect_matches is not running
NoPipeline ==
    /\ hunk_opts = NoOptions
    /\ calls = <<>>

\* collect_hunks is not running
NoCollect ==
    /\ disk = <<>>
    /\ ci = 1
    /\ cfrom = 0
    /\ chunks = <<>>
    /\ cres = "none"

\* the state on entry to from_grep, for a configuration and a grep output
InitWith(hopts, qopts, outputs) ==
    /\ pc = "parse_grep"
    /\ header_opt \in hopts
    /\ hunk_opt \in qopts
    /\ raw \in outputs
    /\ li = 1
    /\ files = <<>>
    /\ raw_hunks = <<>>
    /\ prev_id = 0
    /\ prev_pos = 0
    /\ prev_base_pos = 0
    /\ header_marker = IF header_opt = None THEN DefaultHeader ELSE header_opt[1]
    /\ hunk_marker = IF hunk_opt = None THEN DefaultHunk ELSE hunk_opt[1]
    /\ header_collision_avoidance = (header_opt = None)
    /\ hunk_collision_avoidance = (hunk_opt = None)
    /\ i = 0
    /\ built = "none"
    /\ wi = 1
    /\ w_prev_id = 0
    /\ buf = <<>>
    /\ kinds = <<>>
    /\ unedited = TRUE
    /\ ri = 1
    /\ lines = NewLineAccumulator
    /\ hunks = NewHunkAccumulator
    /\ patch = <<>>
    /\ result = "none"
    /\ cur = <<>>
    /\ emitted = <<>>
    /\ flushed = <<>>
    /\ section = 0
    /\ hpc = "idle"
    /\ hits = <<>>
    /\ hits0 = <<>>
    /\ hfiles = <<>>
    /\ sec = NewGrepResult
    /\ op = NoOperator
    /\ left = 0
    /\ head0 = FALSE
    /\ NoRaw
    /\ NoCollect
    /\ NoPipeline

Init == InitWith(HeaderOpts, HunkOpts, GrepOutputs)

(***************************************************************************)
(* PatchBuilder::from_grep: parse_grep, then avoid_collision.              *)
(***************************************************************************)
\* self.files.get(name): the id, 0 for None
FileId(fs, name) ==
    IF \E k \in 1..Len(fs) : fs[k] = name
    THEN CHOOSE k \in 1..Len(fs) : fs[k] = name
    ELSE 0

\* HashMap::insert
MapInsert(m, key, val) ==
    [k \in DOMAIN m \cup {key} |-> IF k = key THEN val ELSE m[k]]

\* one iteration of the loop of parse_grep
ParseGrepLine ==
    /\ pc = "parse_grep"
    /\ li <= Len(raw)
    /\ LET l == raw[li]
           v == Splitn3(l)
           ln == ParseNum(v[2])
           known == FileId(files, v[1])
           id == IF known = 0 THEN Len(files) + 1 ELSE known
       IN  IF Len(v) # 3
           THEN /\ built' = "GrepLine"
                /\ pc' = "done"
                /\ UNCHANGED grepVars
           ELSE IF v[1] = <<>>
           THEN /\ prev_id' = 0
                /\ prev_pos' = 0
                /\ prev_base_pos' = 0
                /\ li' = li + 1
                /\ UNCHANGED <<files, raw_hunks, built, pc>>
           ELSE IF ln < 0
           THEN /\ built' = "LineNumber"
                /\ pc' = "done"
                /\ UNCHANGED grepVars
           ELSE /\ files' = IF known = 0 THEN Append(files, v[1]) ELSE files
                /\ IF prev_id = id /\ prev_pos = ln - 1
                   THEN /\ raw_hunks' =
                              IF <<id, prev_base_pos>> \in DOMAIN raw_hunks
                              THEN [raw_hunks EXCEPT
                                        ![<<id, prev_base_pos>>] = Append(@, v[3])]
                              ELSE raw_hunks
                        /\ UNCHANGED prev_base_pos
                   ELSE /\ raw_hunks' = MapInsert(raw_hunks, <<id, ln>>, <<v[3]>>)
                        /\ prev_base_pos' = ln
                /\ prev_id' = id
                /\ prev_pos' = ln
                /\ li' = li + 1
                /\ UNCHANGED <<built, pc>>
    /\ UNCHANGED <<configVars, markerVars, i, writeVars, readVars, hitVars>>

\* the loop of parse_grep ends: from_grep goes on to avoid_collision
ParseGrepEnd ==
    /\ pc = "parse_grep"
    /\ li > Len(raw)
    /\ pc' = "avoid_header"
    /\ i' = 0
    /\ UNCHANGED <<configVars, grepVars, markerVars, built, writeVars, readVars, hitVars>>

\* a scan that looks at the first line of each hunk only
scan_first_lines(rh, marker) ==
    \E key \in DOMAIN rh : StartsWith(rh[key][1], marker)

\* does a line of a hunk start with the marker
scan_lines(rh, marker) ==
    \E key \in DOMAIN rh :
        \E k \in 1..Len(rh[key]) : StartsWith(rh[key][k], marker)

\* an iteration that extends the marker whether the user fixed it or not
AvoidHeaderCollisionAnyMarker ==
    /\ pc = "avoid_header"
    /\ IF ~scan_lines(raw_hunks, header_marker)
       THEN /\ pc' = "avoid_hunk"
            /\ i' = 0
            /\ UNCHANGED <<header_marker, built>>
       ELSE IF i = CollisionBound
       THEN /\ built' = "MarkerCollision"
            /\ pc' = "done"
            /\ UNCHANGED <<header_marker, i>>
       ELSE /\ header_marker' = Append(header_marker, "+")
            /\ i' = i + 1
            /\ UNCHANGED <<pc, built>>
    /\ UNCHANGED <<configVars, grepVars, hunk_marker, header_collision_avoidance,
                   hunk_collision_avoidance, writeVars, readVars, hitVars>>

\* one iteration of the first loop of avoid_collision
AvoidHeaderCollision ==
    /\ pc = "avoid_header"
    /\ IF ~scan_lines(raw_hunks, header_marker)
       THEN /\ pc' = "avoid_hunk"
            /\ i' = 0
            /\ UNCHANGED <<header_marker, built>>
       ELSE IF i = CollisionBound \/ ~header_collision_avoidance
       THEN /\ built' = "MarkerCollision"
            /\ pc' = "done"
            /\ UNCHANGED <<header_marker, i>>
       ELSE /\ header_marker' = Append(header_marker, "+")
            /\ i' = i + 1
            /\ UNCHANGED <<pc, built>>
    /\ UNCHANGED <<configVars, grepVars, hunk_marker, header_collision_avoidance,
                   hunk_collision_avoidance, writeVars, readVars, hitVars>>

\* an iteration that extends the hunk marker by two characters at once
AvoidHunkCollisionByTwo ==
    /\ pc = "avoid_hunk"
    /\ IF ~scan_lines(raw_hunks, hunk_marker)
       THEN /\ pc' = "write"
            /\ built' = "Ok"
            /\ UNCHANGED <<hunk_marker, i>>
       ELSE IF i = CollisionBound \/ ~hunk_collision_avoidance
       THEN /\ built' = "MarkerCollision"
            /\ pc' = "done"
            /\ UNCHANGED <<hunk_marker, i>>
       ELSE /\ hunk_marker' = hunk_marker \o <<"@", "@">>
            /\ i' = i + 1
            /\ UNCHANGED <<pc, built>>
    /\ UNCHANGED <<configVars, grepVars, header_marker, header_collision_avoidance,
                   hunk_collision_avoidance, writeVars, readVars, hitVars>>

\* one iteration of the second loop of avoid_collision
AvoidHunkCollision ==
    /\ pc = "avoid_hunk"
    /\ IF ~scan_lines(raw_hunks, hunk_marker)
       THEN /\ pc' = "write"
            /\ built' = "Ok"
            /\ UNCHANGED <<hunk_marker, i>>
       ELSE IF i = CollisionBound \/ ~hunk_collision_avoidance
       THEN /\ built' = "MarkerCollision"
            /\ pc' = "done"
            /\ UNCHANGED <<hunk_marker, i>>
       ELSE /\ hunk_marker' = Append(hunk_marker, "@")
            /\ i' = i + 1
            /\ UNCHANGED <<pc, built>>
    /\ UNCHANGED <<configVars, grepVars, header_marker, header_collision_avoidance,
                   hunk_collision_avoidance, writeVars, readVars, hitVars>>

(***************************************************************************)
(* PatchBuilder::write_halfdiff.                                           *)
(***************************************************************************)
\* the order of (usize, usize)
KeyLess(k1, k2) == k1[1] < k2[1] \/ (k1[1] = k2[1] /\ k1[2] < k2[2])

\* keys.sort()
RECURSIVE SortKeys(_)
SortKeys(S) ==
    IF S = {} THEN <<>>
    ELSE LET m == CHOOSE k \in S : \A o \in S \ {k} : KeyLess(k, o)
         IN  <<m>> \o SortKeys(S \ {m})

HeaderLine(marker, filename) == marker \o <<" ">> \o filename

\* a hunk line that counts the lines of the file from 0
HunkLineFromZero(marker, pos, n) ==
    marker \o <<" ">> \o FmtNum(pos - 1) \o <<",">> \o FmtNum(n)

HunkLine(marker, pos, n) == marker \o <<" ">> \o FmtNum(pos) \o <<",">> \o FmtNum(n)

\* one iteration of the loop of write_halfdiff
WriteHunk ==
    /\ pc = "write"
    /\ wi <= Cardinality(DOMAIN raw_hunks)
    /\ LET key == SortKeys(DOMAIN raw_hunks)[wi]
           id == key[1]
           pos == key[2]
           body == raw_hunks[key]
           header == IF w_prev_id # id
                     THEN <<HeaderLine(header_marker, files[id])>>
                     ELSE <<>>
       IN  /\ buf' = buf \o header \o <<HunkLine(hunk_marker, pos, Len(body))>> \o body
           /\ kinds' = kinds
                  \o [k \in 1..Len(header) |-> [kind |-> "header", id |-> id, pos |-> 0]]
                  \o <<[kind |-> "hunk", id |-> id, pos |-> pos]>>
                  \o [k \in 1..Len(body) |-> [kind |-> "body", id |-> id, pos |-> pos]]
           /\ w_prev_id' = id
    /\ wi' = wi + 1
    /\ UNCHANGED <<pc, configVars, grepVars, markerVars, i, built, unedited, readVars,
                   hitVars>>

\* the loop of write_halfdiff ends: the editor is started on the buffer
WriteEnd ==
    /\ pc = "write"
    /\ wi > Cardinality(DOMAIN raw_hunks)
    /\ pc' = "edit"
    /\ UNCHANGED <<configVars, grepVars, markerVars, i, built, writeVars, readVars,
                   hitVars>>

(***************************************************************************)
(* LineAccumulator and HunkAccumulator.                                    *)
(***************************************************************************)
\* LineAccumulator::is_empty
la_is_empty(la) == la.id = 0 \/ la.hunk = <<>>

\* LineAccumulator::open_new_file
open_new_file(la, id) == [la EXCEPT !.id = id]

\* LineAccumulator::open_new_hunk
open_new_hunk(la, hunk) ==
    [la EXCEPT !.hunk = hunk, !.buf = <<>>, !.edited_len = 0]

\* LineAccumulator::push_line, below its assertion
push_line(la, line) ==
    [la EXCEPT !.buf = Append(@, line), !.edited_len = @ + 1]

\* LineAccumulator::is_edited: self.buf.lines().chain(repeat("")) zipped
\* with original_lines; the zip is as long as original_lines
is_edited(la, original_lines) ==
    \E k \in 1..Len(original_lines) :
        (IF k <= Len(la.buf) THEN la.buf[k] ELSE <<>>) # original_lines[k]

\* 2^64 - 10000, the numeral without its last four digits
U64High == <<"1", "8", "4", "4", "6", "7", "4", "4", "0", "7", "3", "7", "0", "9", "5", "5">>

\* `{}` of (v as usize) for an isize v: the numeral of v, of 2^64 + v when
\* v is negative (2^64 = 18446744073709551616; v > -1616 here)
FmtAsUsize(v) ==
    IF v >= 0 THEN FmtNum(v) ELSE U64High \o FmtNum(1616 + v)

Prefixed(c, text) == [k \in 1..Len(text) |-> <<c>> \o text[k]]

\* a block whose header gives the original length on both sides
HunkBlockOneLength(original_pos, original_lines, la) ==
    << <<"@", "@", " ", "-">> \o FmtNum(original_pos) \o <<",">>
          \o FmtNum(Len(original_lines)) \o <<" ", "+">>
          \o FmtAsUsize(original_pos + la.pos_diff) \o <<",">>
          \o FmtNum(Len(original_lines)) \o <<" ", "@", "@">> >>
       \o Prefixed("-", original_lines)
       \o Prefixed("+", la.buf)

\* the block dump_hunk formats for a changed hunk
HunkBlock(original_pos, original_lines, la) ==
    << <<"@", "@", " ", "-">> \o FmtNum(original_pos) \o <<",">>
          \o FmtNum(Len(original_lines)) \o <<" ", "+">>
          \o FmtAsUsize(original_pos + la.pos_diff) \o <<",">>
          \o FmtNum(la.edited_len) \o <<" ", "@", "@">> >>
       \o Prefixed("-", original_lines)
       \o Prefixed("+", la.buf)

\* HunkAccumulator::is_empty
ha_is_empty(ha) == ha.header_len = ByteLen(ha.buf)

\* HunkAccumulator::open_new_patch
open_new_patch(filename) ==
    LET header == << <<"-", "-", "-", " ", "a", "/">> \o filename,
                     <<"+", "+", "+", " ", "b", "/">> \o filename >>
    IN  [header_len |-> ByteLen(header), buf |-> header]

\* HunkAccumulator::push_hunk
push_hunk(ha, block) == [ha EXCEPT !.buf = @ \o block]

\* HunkAccumulator::dump_patch: the accumulator and the patch afterwards
dump_patch(ha, acc) ==
    IF ha_is_empty(ha)
    THEN [hunks |-> ha, patch |-> acc]
    ELSE [hunks |-> [ha EXCEPT !.header_len = 0], patch |-> acc \o ha.buf]

\* LineAccumulator::dump_hunk: the two accumulators afterwards, whether an
\* unwrap() panicked, the record of the hunk pushed, if one was, and the
\* record of the hunk compared with its original lines, if one was
dump_hunk(la, ha, original) ==
    LET original_pos == ParseNum(BeforeComma(la.hunk))
        original_lines == original[<<la.id, original_pos>>]
        quiet == [lines |-> open_new_hunk(la, <<>>), hunks |-> ha,
                  panic |-> FALSE, emit |-> <<>>, flush |-> <<>>]
        looked == << [section |-> section,
                      id |-> la.id,
                      body |-> la.buf,
                      original |-> original_lines,
                      block |-> HunkBlock(original_pos, original_lines, la)] >>
    IN  IF la_is_empty(la) THEN quiet
        ELSE IF original_pos < 0 \/ <<la.id, original_pos>> \notin DOMAIN original
        THEN [lines |-> la, hunks |-> ha, panic |-> TRUE, emit |-> <<>>, flush |-> <<>>]
        ELSE IF ~is_edited(la, original_lines) THEN [quiet EXCEPT !.flush = looked]
        ELSE [lines |-> open_new_hunk(
                            [la EXCEPT !.pos_diff =
                                @ + la.edited_len - Len(original_lines)], <<>>),
              hunks |-> push_hunk(ha, HunkBlock(original_pos, original_lines, la)),
              panic |-> FALSE,
              flush |-> looked,
              emit |-> << [id |-> la.id,
                           hunk |-> la.hunk,
                           body |-> la.buf,
                           orig_from |-> original_pos,
                           orig_len |-> Len(original_lines),
                           pos_diff |-> la.pos_diff,
                           new_from |-> original_pos + la.pos_diff,
                           edited_len |-> la.edited_len,
                           block |-> HunkBlock(original_pos, original_lines, la),
                           section |-> section] >>]

(***************************************************************************)
(* PatchBuilder::read_halfdiff.                                            *)
(***************************************************************************)
\* l[marker.len()..].trim()
AfterMarker(l, marker) == Trim(SubSeq(l, Len(marker) + 1, Len(l)))

\* the branch the loop of read_halfdiff takes for a line
LineKind(l) ==
    IF StartsWith(l, header_marker) THEN "header"
    ELSE IF StartsWith(l, hunk_marker) THEN "hunk"
    ELSE "body"

Panic ==
    /\ result' = "panic"
    /\ pc' = "done"
    /\ UNCHANGED <<lines, hunks, patch, emitted, flushed, section>>

\* one iteration of the loop of read_halfdiff
ReadLine ==
    /\ pc = "read"
    /\ ri <= Len(buf)
    /\ LET l == buf[ri]
           d == dump_hunk(lines, hunks, raw_hunks)
           p == dump_patch(d.hunks, patch)
           filename == AfterMarker(l, header_marker)
           id == FileId(files, filename)
       IN  /\ cur' = l
           /\ ri' = ri + 1
           /\ IF StartsWith(l, header_marker)
              THEN IF d.panic THEN Panic
                   ELSE IF id = 0
                   THEN /\ result' = "UnknownFile"
                        /\ pc' = "done"
                        /\ lines' = d.lines
                        /\ hunks' = p.hunks
                        /\ patch' = p.patch
                        /\ emitted' = emitted \o d.emit
                        /\ flushed' = flushed \o d.flush
                        /\ UNCHANGED section
                   ELSE /\ lines' = open_new_file(d.lines, id)
                        /\ hunks' = open_new_patch(filename)
                        /\ patch' = p.patch
                        /\ emitted' = emitted \o d.emit
                        /\ flushed' = flushed \o d.flush
                        /\ section' = section + 1
                        /\ UNCHANGED <<result, pc>>
              ELSE IF StartsWith(l, hunk_marker)
              THEN IF d.panic THEN Panic
                   ELSE /\ lines' = open_new_hunk(d.lines, AfterMarker(l, hunk_marker))
                        /\ hunks' = d.hunks
                        /\ emitted' = emitted \o d.emit
                        /\ flushed' = flushed \o d.flush
                        /\ UNCHANGED <<patch, section, result, pc>>
              ELSE IF la_is_empty(lines) THEN Panic
                   ELSE /\ lines' = push_line(lines, l)
                        /\ UNCHANGED <<hunks, patch, emitted, flushed, section, result, pc>>
    /\ UNCHANGED <<configVars, grepVars, markerVars, i, built, writeVars, hitVars>>

\* after the loop of read_halfdiff: the last hunk and the last file
ReadEnd ==
    /\ pc = "read"
    /\ ri > Len(buf)
    /\ LET d == dump_hunk(lines, hunks, raw_hunks)
           p == dump_patch(d.hunks, patch)
       IN  IF d.panic THEN Panic
           ELSE /\ lines' = d.lines
                /\ hunks' = p.hunks
                /\ patch' = p.patch
                /\ emitted' = emitted \o d.emit
                /\ flushed' = flushed \o d.flush
                /\ result' = "Ok"
                /\ pc' = "done"
                /\ UNCHANGED section
    /\ UNCHANGED <<configVars, grepVars, markerVars, i, built, writeVars, ri, cur,
                   hitVars>>

(***************************************************************************)
(* The editor (Editor::wait_edit): the user edits the buffer.              *)
(***************************************************************************)
\* the user quits the editor without a change
NoEdit ==
    /\ pc = "edit"
    /\ pc' = "read"
    /\ UNCHANGED <<configVars, grepVars, markerVars, i, built, writeVars, readVars,
                   hitVars>>

\* the lines the user types: headers of the files and of another file,
\* hunk lines with the coordinates of hunks, of no hunk and of no number,
\* and body lines
EditLines ==
    { HeaderLine(header_marker, f) : f \in {FileA, FileB, FileC} }
        \cup { hunk_marker \o <<" ">> \o c :
                 c \in { <<"1", ",", "1">>, <<"3", ",", "2">>, <<"2", ",", "1">>, <<"q">> } }
        \cup { <<"x">>, <<"y">>, <<>> }

EditedBuffers == UNION { [1..n -> EditLines] : n \in 0..MaxEditLines }

\* the user leaves any buffer of the lines above
Edit ==
    /\ pc = "edit"
    /\ pc' = "read"
    /\ buf' \in EditedBuffers
    /\ unedited' = (buf' = buf)
    /\ UNCHANGED <<configVars, grepVars, markerVars, i, built, wi, w_prev_id,
                   kinds, readVars, hitVars>>

(***************************************************************************)
(* Specifications.                                                         *)
(***************************************************************************)
Build ==
    \/ ParseGrepLine
    \/ ParseGrepEnd
    \/ AvoidHeaderCollision
    \/ AvoidHunkCollision
    \/ WriteHunk
    \/ WriteEnd

\* from_grep, write_halfdiff and read_halfdiff of the buffer as written
Next == Build \/ NoEdit \/ ReadLine \/ ReadEnd

Spec == Init /\ [][Next]_vars

\* the files and lines the edited runs search
EditGrepOutputs ==
    { <<GrepLine(FileA, 1, <<"x">>), GrepLine(FileA, 3, <<"x">>),
        GrepLine(FileA, 4, <<"y">>), GrepLine(FileB, 1, <<"x">>)>> }

InitEdit == InitWith({None}, {None}, EditGrepOutputs)

NextEdit == Build \/ Edit \/ ReadLine \/ ReadEnd

\* from_grep, write_halfdiff, the user's edit and read_halfdiff
SpecEdit == InitEdit /\ [][NextEdit]_vars

(***************************************************************************)
(* The hit algebra (impl MatchExtender for GrepResult).                    *)
(***************************************************************************)
\* the loop merging only the hits that share a line: > in place of >=
RECURSIVE FilterOverlapsFromShared(_, _, _)
FilterOverlapsFromShared(h, n_drop, k) ==
    IF k >= Len(h) THEN SubSeq(h, 1, Len(h) - n_drop)
    ELSE LET at == k - n_drop
             dst == h[at]
             src == h[at + n_drop + 1]
             merge == /\ dst.file_id = src.file_id
                      /\ dst.from + dst.n_lines > src.from
             h1 == IF merge
                   THEN [h EXCEPT ![at].n_lines = src.from + src.n_lines - dst.from]
                   ELSE h
             n1 == IF merge THEN n_drop + 1 ELSE n_drop
             h2 == IF n1 < Len(h) - at
                   THEN [h1 EXCEPT ![at + 1] = h1[at + n1 + 1]]
                   ELSE h1
         IN  FilterOverlapsFromShared(h2, n1, k + 1)

\* the loop of filter_overlaps from iteration k on, then the truncate;
\* Rust's hits[j] is h[j + 1]
RECURSIVE FilterOverlapsFrom(_, _, _)
FilterOverlapsFrom(h, n_drop, k) ==
    IF k >= Len(h) THEN SubSeq(h, 1, Len(h) - n_drop)
    ELSE LET at == k - n_drop                \* split_at_mut(i - n_drop)
             dst == h[at]                    \* dst.last_mut()
             src == h[at + n_drop + 1]       \* srcs[n_drop]
             merge == /\ dst.file_id = src.file_id
                      /\ dst.from + dst.n_lines >= src.from
             h1 == IF merge
                   THEN [h EXCEPT ![at].n_lines = src.from + src.n_lines - dst.from]
                   ELSE h
             n1 == IF merge THEN n_drop + 1 ELSE n_drop
             h2 == IF n1 < Len(h) - at       \* n_drop < srcs.len()
                   THEN [h1 EXCEPT ![at + 1] = h1[at + n1 + 1]]
                   ELSE h1
         IN  FilterOverlapsFrom(h2, n1, k + 1)

\* MatchExtender::filter_overlaps
filter_overlaps(h) == FilterOverlapsFrom(h, 0, 1)

\* collect_matches calls filter_overlaps
FilterOverlaps ==
    /\ hpc \in {"hits", "done"}
    /\ left > 0
    /\ hits0' = hits
    /\ hits' = filter_overlaps(hits)
    /\ hpc' = "done"
    /\ op' = [name |-> "filter_overlaps"]
    /\ left' = left - 1
    /\ UNCHANGED <<hfiles, sec, head0, rawVars, collectVars,
                 pipeVars, patchVars>>

\* the order of the hits of a GrepResult: by (file_id, from)
HitLeq(p, q) ==
    p[1] < q[1] \/ (p[1] = q[1] /\ p[2] <= q[2])

\* the places <<file_id, from>> of the hits
HitPlaces == {0, 1} \X (0..MaxFrom)

\* the places of n hits in that order
SortedPlaces(n) ==
    { ps \in [1..n -> HitPlaces] : \A k \in 1..(n - 1) : HitLeq(ps[k], ps[k + 1]) }

\* the hits at the places, of the lengths: a hit has one line or more
HitsAt(ps, ns) ==
    [k \in DOMAIN ps |->
        [file_id |-> ps[k][1], from |-> ps[k][2], n_lines |-> ns[k], level |-> 0]]

\* no patch is being built
PatchIdle ==
    /\ pc = "idle"
    /\ header_opt = None
    /\ hunk_opt = None
    /\ raw = <<>>
    /\ li = 1
    /\ files = <<>>
    /\ raw_hunks = <<>>
    /\ prev_id = 0
    /\ prev_pos = 0
    /\ prev_base_pos = 0
    /\ header_marker = DefaultHeader
    /\ hunk_marker = DefaultHunk
    /\ header_collision_avoidance = TRUE
    /\ hunk_collision_avoidance = TRUE
    /\ i = 0
    /\ built = "none"
    /\ wi = 1
    /\ w_prev_id = 0
    /\ buf = <<>>
    /\ kinds = <<>>
    /\ unedited = TRUE
    /\ ri = 1
    /\ lines = NewLineAccumulator
    /\ hunks = NewHunkAccumulator
    /\ patch = <<>>
    /\ result = "none"
    /\ cur = <<>>
    /\ emitted = <<>>
    /\ flushed = <<>>
    /\ section = 0

InitOverlaps ==
    /\ PatchIdle
    /\ hpc = "hits"
    /\ \E n \in 0..MaxHits :
          \E ps \in SortedPlaces(n) :
             \E ns \in [1..n -> 1..MaxNLines] : hits = HitsAt(ps, ns)
    /\ hits0 = <<>>
    /\ hfiles = <<FileA, FileB>>
    /\ sec = NewGrepResult
    /\ op = NoOperator
    /\ left = 1
    /\ head0 = FALSE
    /\ NoRaw
    /\ NoCollect
    /\ NoPipeline

NextOverlaps == FilterOverlaps

\* filter_overlaps on the sorted hits of a GrepResult
SpecOverlaps == InitOverlaps /\ [][NextOverlaps]_vars

(***************************************************************************)
(* The other operators of the hit algebra.                                 *)
(***************************************************************************)
\* the byte of a character of a path
Byte(c) ==
    CASE c = "a" -> 97
      [] c = "b" -> 98
      [] c = "c" -> 99
      [] OTHER -> 0

\* Ord of str: -1, 0 or 1 as s is less than, equal to or greater than t,
\* byte by byte
RECURSIVE PathCmp(_, _)
PathCmp(s, t) ==
    IF s = <<>> THEN (IF t = <<>> THEN 0 ELSE -1)
    ELSE IF t = <<>> THEN 1
    ELSE IF Byte(s[1]) < Byte(t[1]) THEN -1
    ELSE IF Byte(s[1]) > Byte(t[1]) THEN 1
    ELSE PathCmp(Tail(s), Tail(t))

\* a filter that looks the file_id of a hit up in the table of the secondary
filter_files_by_id(h, fs, secondary, invert) ==
    LET Keep(x) == invert # (x.file_id + 1 \in DOMAIN secondary.files)
    IN  SelectSeq(h, Keep)

\* MatchExtender::filter_files
filter_files(h, fs, secondary, invert) ==
    LET file_ids == { secondary.files[k] : k \in DOMAIN secondary.files }
        Keep(x) == invert # (fs[x.file_id + 1] \in file_ids)
    IN  SelectSeq(h, Keep)

\* #[derive(PartialOrd, Ord)] of GrepHit: by file_id, from, n_lines, level
HitOrdLess(x, y) ==
    \/ x.file_id < y.file_id
    \/ x.file_id = y.file_id /\ x.from < y.from
    \/ x.file_id = y.file_id /\ x.from = y.from /\ x.n_lines < y.n_lines
    \/ /\ x.file_id = y.file_id /\ x.from = y.from /\ x.n_lines = y.n_lines
       /\ x.level < y.level

RECURSIVE InsertHit(_, _)
InsertHit(sorted, x) ==
    IF sorted = <<>> THEN <<x>>
    ELSE IF HitOrdLess(x, sorted[1]) THEN <<x>> \o sorted
    ELSE <<sorted[1]>> \o InsertHit(Tail(sorted), x)

\* self.hits.sort()
RECURSIVE SortHits(_)
SortHits(h) ==
    IF h = <<>> THEN <<>>
    ELSE InsertHit(SortHits(SubSeq(h, 1, Len(h) - 1)), h[Len(h)])

\* self.hits.dedup(): a hit equal to the one before it is removed
RECURSIVE Dedup(_)
Dedup(h) ==
    IF Len(h) <= 1 THEN h
    ELSE LET d == Dedup(SubSeq(h, 1, Len(h) - 1))
         IN  IF h[Len(h)] = d[Len(d)] THEN d ELSE Append(d, h[Len(h)])

\* MatchExtender::collect_head
collect_head(h, n_lines) ==
    Dedup(SortHits([k \in DOMAIN h |-> [h[k] EXCEPT !.from = 0, !.n_lines = n_lines]]))

\* a skip that stops at a hit of any indentation level
RECURSIVE SkipToAnyLevel(_, _, _, _)
SkipToAnyLevel(to, fs, hit, it) ==
    IF it > Len(to.hits) THEN it
    ELSE LET x == to.hits[it]
             c == PathCmp(to.files[x.file_id + 1], fs[hit.file_id + 1])
         IN  IF c > 0 \/ (c = 0 /\ x.from >= hit.from)
             THEN it
             ELSE SkipToAnyLevel(to, fs, hit, it + 1)

\* the `while let Some(x) = it.peek()` of extend_to_another: the index of
\* the hit the iterator stops at, Len(to.hits) + 1 when it runs out
RECURSIVE SkipTo(_, _, _, _)
SkipTo(to, fs, hit, it) ==
    IF it > Len(to.hits) THEN it
    ELSE LET x == to.hits[it]
             c == PathCmp(to.files[x.file_id + 1], fs[hit.file_id + 1])
         IN  IF (c > 0 \/ (c = 0 /\ x.from >= hit.from)) /\ x.level = hit.level
             THEN it
             ELSE SkipTo(to, fs, hit, it + 1)

\* the loop extending a hit up to the line before its target
RECURSIVE ExtendFromBefore(_, _, _, _, _)
ExtendFromBefore(h, fs, to, k, it) ==
    IF k > Len(h) THEN h
    ELSE LET hit == h[k]
             it1 == SkipTo(to, fs, hit, it)
             next == to.hits[it1]
         IN  IF it1 > Len(to.hits) THEN h
             ELSE IF to.files[next.file_id + 1] # fs[hit.file_id + 1]
             THEN ExtendFromBefore(h, fs, to, k + 1, it1)
             ELSE ExtendFromBefore(
                      [h EXCEPT ![k].n_lines = next.from - hit.from],
                      fs, to, k + 1, it1 + 1)

\* the `for hit in &mut self.hits` of extend_to_another from the hit k on,
\* with the iterator `it` over to.hits
RECURSIVE ExtendFrom(_, _, _, _, _)
ExtendFrom(h, fs, to, k, it) ==
    IF k > Len(h) THEN h
    ELSE LET hit == h[k]
             it1 == SkipTo(to, fs, hit, it)
             next == to.hits[it1]
         IN  IF it1 > Len(to.hits) THEN h                        \* break
             ELSE IF to.files[next.file_id + 1] # fs[hit.file_id + 1]
             THEN ExtendFrom(h, fs, to, k + 1, it1)              \* continue
             ELSE ExtendFrom(
                      [h EXCEPT ![k].n_lines = next.from + next.n_lines - hit.from],
                      fs, to, k + 1, it1 + 1)

\* MatchExtender::extend_to_another
extend_to_another(h, fs, to) == ExtendFrom(h, fs, to, 1, 1)

\* an extension by up + down lines, also where the start stops at line 0
extend_by_all_lines(h, up, down) ==
    [k \in DOMAIN h |->
        LET start == IF h[k].from >= up THEN h[k].from - up ELSE 0
        IN  [h[k] EXCEPT !.from = start, !.n_lines = h[k].n_lines + up + down]]

\* MatchExtender::extend_by_lines
extend_by_lines(h, up, down) ==
    [k \in DOMAIN h |->
        LET end == h[k].from + h[k].n_lines + down
            start == IF h[k].from >= up THEN h[k].from - up ELSE 0   \* saturating_sub
        IN  [h[k] EXCEPT !.from = start, !.n_lines = end - start]]

\* an operator may be called
Callable == hpc \in {"hits", "done"} /\ left > 0

\* collect_matches calls filter_files with the files of --with or --without
FilterFiles ==
    /\ Callable
    /\ \E invert \in BOOLEAN :
          /\ hits' = filter_files(hits, hfiles, sec, invert)
          /\ op' = [name |-> "filter_files", invert |-> invert]
    /\ hits0' = hits
    /\ hpc' = "hits"
    /\ left' = left - 1
    /\ UNCHANGED <<hfiles, sec, head0, rawVars, collectVars,
                 pipeVars, patchVars>>

\* the values of --head
HeadArgs == {0, 2}

\* collect_matches calls collect_head
CollectHead ==
    /\ Callable
    /\ \E n \in HeadArgs :
          /\ hits' = collect_head(hits, n)
          /\ op' = [name |-> "collect_head", n_lines |-> n]
          /\ head0' = (head0 \/ n = 0)
    /\ hits0' = hits
    /\ hpc' = "hits"
    /\ left' = left - 1
    /\ UNCHANGED <<hfiles, sec, rawVars, collectVars,
                 pipeVars, patchVars>>

\* collect_matches calls extend_to_another with the hits of --to
ExtendToAnother ==
    /\ Callable
    /\ hits' = extend_to_another(hits, hfiles, sec)
    /\ op' = [name |-> "extend_to_another"]
    /\ hits0' = hits
    /\ hpc' = "hits"
    /\ left' = left - 1
    /\ UNCHANGED <<hfiles, sec, head0, rawVars, collectVars,
                 pipeVars, patchVars>>

\* the values <<up, down>> of --before and --after, or of --context
LineArgs == {<<0, 1>>, <<2, 0>>, <<1, 1>>}

\* collect_matches calls extend_by_lines
ExtendByLines ==
    /\ Callable
    /\ \E ud \in LineArgs :
          /\ hits' = extend_by_lines(hits, ud[1], ud[2])
          /\ op' = [name |-> "extend_by_lines", up |-> ud[1], down |-> ud[2]]
    /\ hits0' = hits
    /\ hpc' = "hits"
    /\ left' = left - 1
    /\ UNCHANGED <<hfiles, sec, head0, rawVars, collectVars,
                 pipeVars, patchVars>>

\* the indentation levels of the lines
Levels == {0, 1}

\* hits of one line at the places, of the levels
HitsOfLevels(ps, ls) ==
    [k \in DOMAIN ps |->
        [file_id |-> ps[k][1], from |-> ps[k][2], n_lines |-> 1, level |-> ls[k]]]

\* the number of hits of the GrepResult the operators are called on
AlgebraHits == MaxHits - 1

\* the places of n hits as from_raw leaves them when it merges the hits
\* of successive lines: in order, a line or more between two of a file
ApartPlaces(n) ==
    { ps \in SortedPlaces(n) :
        \A k \in 1..(n - 1) :
            ps[k][1] < ps[k + 1][1] \/ ps[k][2] + 1 < ps[k + 1][2] }

\* the GrepResult of the primary pattern: two files, hits in order
PrimaryResult ==
    /\ hfiles = <<FileA, FileB>>
    /\ \E n \in 0..AlgebraHits :
          \E ps \in ApartPlaces(n) :
             \E ls \in [1..n -> Levels] : hits = HitsOfLevels(ps, ls)
    /\ hits0 = <<>>
    /\ op = NoOperator
    /\ head0 = FALSE
    /\ NoRaw
    /\ NoCollect
    /\ NoPipeline

\* the places of n hits of the files fs as from_raw leaves them: in
\* order, no two at one line, each file with a hit
LinePlaces(fs, n) ==
    { ps \in [1..n -> (0..(Len(fs) - 1)) \X (0..MaxFrom)] :
        /\ \A k \in 1..(n - 1) : HitLeq(ps[k], ps[k + 1]) /\ ps[k] # ps[k + 1]
        /\ \A f \in 0..(Len(fs) - 1) : \E k \in 1..n : ps[k][1] = f }

\* the file tables of the secondary pattern
SecondaryFiles == {<<>>, <<FileA>>, <<FileB>>, <<FileA, FileB>>}

\* the numbers of lines the secondary pattern hits
SecondaryCounts == 0..2

\* the secondary patterns of the runs that call several operators
FewSecondaries ==
    { [files |-> <<FileB>>,
       hits |-> HitsOfLevels(<< <<0, 1>> >>, <<0>>)],
      [files |-> <<FileA, FileB>>,
       hits |-> HitsOfLevels(<< <<0, 2>>, <<1, 2>> >>, <<0, 1>>)] }

\* the number of operators a run calls
MaxOps == 2

InitAlgebra ==
    /\ PatchIdle
    /\ hpc = "hits"
    /\ PrimaryResult
    /\ sec \in FewSecondaries
    /\ left = MaxOps

NextAlgebra ==
    \/ FilterFiles
    \/ CollectHead
    \/ ExtendToAnother
    \/ ExtendByLines
    \/ FilterOverlaps

\* the operators of the hit algebra called one after another
SpecAlgebra == InitAlgebra /\ [][NextAlgebra]_vars

InitExtend ==
    /\ PatchIdle
    /\ hpc = "hits"
    /\ PrimaryResult
    /\ \E fs \in SecondaryFiles :
          \E n \in SecondaryCounts :
             \E ps \in LinePlaces(fs, n) :
                \E ls \in [1..n -> Levels] :
                   sec = [files |-> fs, hits |-> HitsOfLevels(ps, ls)]
    /\ left = 1

NextExtend == FilterFiles \/ ExtendToAnother

\* one operator that reads the GrepResult of a secondary pattern
SpecExtend == InitExtend /\ [][NextExtend]_vars

\* hits at the places, of the lengths and of the levels
HitsWith(ps, ns, ls) ==
    [k \in DOMAIN ps |->
        [file_id |-> ps[k][1], from |-> ps[k][2], n_lines |-> ns[k],
         level |-> ls[k]]]

\* hits as from_raw leaves them when it merges (git.rs:245-251): in order,
\* a hit for each run of successive lines, so a line or more between the
\* end of a hit and the next hit of the file
Merged(h) ==
    \A k \in 1..(Len(h) - 1) :
        \/ h[k].file_id < h[k + 1].file_id
        \/ /\ h[k].file_id = h[k + 1].file_id
           /\ h[k].from + h[k].n_lines < h[k + 1].from

\* the GrepResult of the primary pattern, git.grep(pattern, true, ..): the
\* hits of successive lines are merged into hits of several lines
InitMerged ==
    /\ PatchIdle
    /\ hpc = "hits"
    /\ hfiles = <<FileA, FileB>>
    /\ \E n \in 0..AlgebraHits :
          \E ps \in SortedPlaces(n) :
             \E ns \in [1..n -> 1..MaxNLines] :
                \E ls \in [1..n -> Levels] :
                   /\ Merged(HitsWith(ps, ns, ls))
                   /\ hits = HitsWith(ps, ns, ls)
    /\ hits0 = <<>>
    /\ op = NoOperator
    /\ head0 = FALSE
    /\ NoRaw
    /\ NoCollect
    /\ NoPipeline
    /\ \E fs \in SecondaryFiles :
          \E n \in SecondaryCounts :
             \E ps \in LinePlaces(fs, n) :
                \E ls \in [1..n -> Levels] :
                   sec = [files |-> fs, hits |-> HitsOfLevels(ps, ls)]
    /\ left = 1

NextMerged == ExtendToAnother

\* extend_to_another on the merged hits of the primary pattern
SpecMerged == InitMerged /\ [][NextMerged]_vars

(***************************************************************************)
(* Hunks::collect_matches: the operators in the order of the code.  hpc is *)
(* the step to come: "with", "without", "head", "to", "lines", "overlaps", *)
(* then "returned".                                                        *)
(***************************************************************************)
\* Option::unwrap_or
unwrap_or(o, default) == IF o = None THEN default ELSE o[1]

\* the step calls an operator: the hits it leaves and the record of the call
Called(c, args, h) ==
    /\ hits' = h
    /\ hits0' = hits
    /\ op' = c
    /\ calls' = Append(calls, [name |-> c.name, args |-> args])

\* the step calls nothing
Skipped == UNCHANGED <<hits, hits0, op, calls>>

\* if let Some(pattern) = &hunk_opts.with
StepWith ==
    /\ hpc = "with"
    /\ IF hunk_opts.with # None
       THEN /\ Called([name |-> "filter_files", invert |-> FALSE],
                      <<hunk_opts.with[1], FALSE>>,
                      filter_files(hits, hfiles, hunk_opts.with[1], FALSE))
            /\ sec' = hunk_opts.with[1]
       ELSE Skipped /\ UNCHANGED sec
    /\ hpc' = "without"
    /\ UNCHANGED <<hfiles, left, head0, rawVars, collectVars, hunk_opts,
                   patchVars>>

\* if let Some(pattern) = &hunk_opts.without
StepWithout ==
    /\ hpc = "without"
    /\ IF hunk_opts.without # None
       THEN /\ Called([name |-> "filter_files", invert |-> TRUE],
                      <<hunk_opts.without[1], TRUE>>,
                      filter_files(hits, hfiles, hunk_opts.without[1], TRUE))
            /\ sec' = hunk_opts.without[1]
       ELSE Skipped /\ UNCHANGED sec
    /\ hpc' = "head"
    /\ UNCHANGED <<hfiles, left, head0, rawVars, collectVars, hunk_opts,
                   patchVars>>

\* if let Some(head) = &hunk_opts.head
StepHead ==
    /\ hpc = "head"
    /\ IF hunk_opts.head # None
       THEN /\ Called([name |-> "collect_head", n_lines |-> hunk_opts.head[1]],
                      <<hunk_opts.head[1]>>,
                      collect_head(hits, hunk_opts.head[1]))
            /\ head0' = (head0 \/ hunk_opts.head[1] = 0)
       ELSE Skipped /\ UNCHANGED head0
    /\ hpc' = "to"
    /\ UNCHANGED <<hfiles, sec, left, rawVars, collectVars, hunk_opts,
                   patchVars>>

\* if let Some(pattern) = &hunk_opts.to
StepTo ==
    /\ hpc = "to"
    /\ IF hunk_opts.to # None
       THEN /\ Called([name |-> "extend_to_another"],
                      <<hunk_opts.to[1]>>,
                      extend_to_another(hits, hfiles, hunk_opts.to[1]))
            /\ sec' = hunk_opts.to[1]
       ELSE Skipped /\ UNCHANGED sec
    /\ hpc' = "lines"
    /\ UNCHANGED <<hfiles, left, head0, rawVars, collectVars, hunk_opts,
                   patchVars>>

\* a step that takes --before and --after though --context is given
StepLinesBeforeAfter ==
    /\ hpc = "lines"
    /\ LET b == unwrap_or(hunk_opts.before, 0)
           a == unwrap_or(hunk_opts.after, 0)
       IN  IF a # 0 \/ b # 0
           THEN Called([name |-> "extend_by_lines", up |-> b, down |-> a],
                       <<b, a>>, extend_by_lines(hits, b, a))
           ELSE IF hunk_opts.context # None
           THEN LET c == hunk_opts.context[1]
                IN  Called([name |-> "extend_by_lines", up |-> c, down |-> c],
                           <<c, c>>, extend_by_lines(hits, c, c))
           ELSE Skipped
    /\ hpc' = "overlaps"
    /\ UNCHANGED <<hfiles, sec, left, head0, rawVars, collectVars, hunk_opts,
                   patchVars>>

\* if let Some(c) = hunk_opts.context { .. } else { .. }
StepLines ==
    /\ hpc = "lines"
    /\ IF hunk_opts.context # None
       THEN LET c == hunk_opts.context[1]
            IN  Called([name |-> "extend_by_lines", up |-> c, down |-> c],
                       <<c, c>>, extend_by_lines(hits, c, c))
       ELSE LET b == unwrap_or(hunk_opts.before, 0)
                a == unwrap_or(hunk_opts.after, 0)
            IN  IF a # 0 \/ b # 0
                THEN Called([name |-> "extend_by_lines", up |-> b, down |-> a],
                            <<b, a>>, extend_by_lines(hits, b, a))
                ELSE Skipped
    /\ hpc' = "overlaps"
    /\ UNCHANGED <<hfiles, sec, left, head0, rawVars, collectVars, hunk_opts,
                   patchVars>>

\* matches.filter_overlaps()?; Ok(matches)
StepOverlaps ==
    /\ hpc = "overlaps"
    /\ Called([name |-> "filter_overlaps"], <<>>, filter_overlaps(hits))
    /\ hpc' = "returned"
    /\ UNCHANGED <<hfiles, sec, left, head0, rawVars, collectVars, hunk_opts,
                   patchVars>>

\* what git grep returns for the patterns of --with, --without and --to
WithResult == [files |-> <<FileB>>, hits |-> HitsOfLevels(<< <<0, 1>> >>, <<0>>)]
WithoutResult == [files |-> <<FileA>>, hits |-> HitsOfLevels(<< <<0, 0>> >>, <<1>>)]
ToResult ==
    [files |-> <<FileA, FileB>>,
     hits |-> HitsOfLevels(<< <<0, 2>>, <<1, 1>>, <<1, 2>> >>, <<0, 1, 0>>)]

\* the options of a run
HunkOptionSets ==
    [with : {None, Some(WithResult)},
     without : {None, Some(WithoutResult)},
     head : {None, Some(0), Some(2)},
     to : {None, Some(ToResult)},
     context : {None, Some(0), Some(1)},
     before : {None, Some(0), Some(2)},
     after : {None, Some(1)}]

\* collect_matches is called: git.grep(pattern, true, grep_opts) returned
InitPipeline ==
    /\ PatchIdle
    /\ hpc = "with"
    /\ hfiles = <<FileA, FileB>>
    /\ \E n \in 0..AlgebraHits :
          \E ps \in ApartPlaces(n) :
             \E ls \in [1..n -> Levels] : hits = HitsOfLevels(ps, ls)
    /\ hits0 = <<>>
    /\ sec = NewGrepResult
    /\ op = NoOperator
    /\ left = 0
    /\ head0 = FALSE
    /\ NoRaw
    /\ NoCollect
    /\ hunk_opts \in HunkOptionSets
    /\ calls = <<>>

NextPipeline ==
    \/ StepWith
    \/ StepWithout
    \/ StepHead
    \/ StepTo
    \/ StepLines
    \/ StepOverlaps

\* Hunks::collect_matches
SpecPipeline == InitPipeline /\ [][NextPipeline]_vars

(***************************************************************************)
(* GrepResult::from_raw and GrepResult::parse_line (src/src/git.rs).       *)
(***************************************************************************)
\* the character '\0' that git grep --null prints as a delimiter
Nul == "NUL"

\* str::find('\0'): the index of the first '\0', 0 for None
FirstNul(s) ==
    IF \E k \in 1..Len(s) : s[k] = Nul
    THEN CHOOSE k \in 1..Len(s) : s[k] = Nul /\ \A j \in 1..(k - 1) : s[j] # Nul
    ELSE 0

\* GrepResult::parse_line: Ok((filename, at - 1, level)) or Err
parse_line(line) ==
    LET pos == FirstNul(line)
        filename == SubSeq(line, 1, pos - 1)
        rem == SubSeq(line, pos + 1, Len(line))         \* rem[1..]
        pos2 == FirstNul(rem)
        at == ParseNum(SubSeq(rem, 1, pos2 - 1))
        body == SubSeq(rem, pos2 + 1, Len(rem))         \* &line[1..]
        level == Len(body) - Len(TrimStart(body))
    IN  IF pos = 0
        THEN [ok |-> FALSE, err |-> "filename-linenumber delimiter"]
        ELSE IF pos2 = 0
        THEN [ok |-> FALSE, err |-> "linenumber-body delimiter"]
        ELSE IF at = -1
        THEN [ok |-> FALSE, err |-> "broken grep line number"]
        ELSE [ok |-> TRUE, filename |-> filename, at |-> at - 1, level |-> level]

\* Ord of the tuple (&str, usize, usize)
LineLess(x, y) ==
    \/ PathCmp(x.filename, y.filename) = -1
    \/ /\ PathCmp(x.filename, y.filename) = 0
       /\ \/ x.at < y.at
          \/ x.at = y.at /\ x.level < y.level

RECURSIVE InsertLine(_, _)
InsertLine(t, x) ==
    IF t = <<>> THEN <<x>>
    ELSE IF LineLess(x, t[Len(t)])
         THEN Append(InsertLine(SubSeq(t, 1, Len(t) - 1), x), t[Len(t)])
         ELSE Append(t, x)

\* the lines kept in the order git grep printed them
KeepLines(t) == t

\* lines.sort(): a stable sort
RECURSIVE SortLines(_)
SortLines(t) ==
    IF t = <<>> THEN <<>>
    ELSE InsertLine(SortLines(SubSeq(t, 1, Len(t) - 1)), t[Len(t)])

\* the body of the loop of from_raw over the sorted lines
PushLine(bin, x, mrg) ==
    LET fs == IF bin.files = <<>> \/ bin.files[Len(bin.files)] # x.filename
              THEN Append(bin.files, x.filename)
              ELSE bin.files
        file_id == Len(fs) - 1
        n == Len(bin.hits)
        extend == /\ mrg
                  /\ n > 0
                  /\ bin.hits[n].file_id = file_id
                  /\ bin.hits[n].from + bin.hits[n].n_lines = x.at
    IN  IF extend
        THEN [files |-> fs,
              hits |-> [bin.hits EXCEPT ![n].n_lines = bin.hits[n].n_lines + 1]]
        ELSE [files |-> fs,
              hits |-> Append(bin.hits, [file_id |-> file_id, from |-> x.at,
                                         n_lines |-> 1, level |-> x.level])]

\* a path git grep reports between "a" and "b"
FileAB == <<"a", "b">>

\* lines that are not `filename NUL number NUL body`: no delimiter, one
\* delimiter, a line number that is no number
MalformedLines ==
    { <<"a">>,
      <<"a", Nul, "1">>,
      <<"a", Nul, "x", Nul, "x">> }

\* what git grep can print on a line: a hit (the lines of "a" are indented
\* or not), the separator, or something from_raw does not expect
RawItems ==
    { [kind |-> "hit", file |-> f, ln |-> n, level |-> l] :
        f \in {FileA}, n \in 1..MaxLine, l \in Levels }
    \cup { [kind |-> "hit", file |-> f, ln |-> n, level |-> 0] :
        f \in {FileAB, FileB}, n \in 1..MaxLine }
    \cup { [kind |-> "sep"] }
    \cup { [kind |-> "bad", text |-> t] : t \in MalformedLines }

\* the text of a line of the output
RawLine(item) ==
    CASE item.kind = "hit" ->
            item.file \o <<Nul>> \o FmtNum(item.ln) \o <<Nul>>
            \o Repeat(" ", item.level) \o <<"x">>
      [] item.kind = "sep" -> GrepSeparator
      [] OTHER -> item.text

\* git grep reports a line of a file once
OncePerLine(its) ==
    \A j, k \in DOMAIN its :
        (j # k /\ its[j].kind = "hit" /\ its[k].kind = "hit")
            => <<its[j].file, its[j].ln>> # <<its[k].file, its[k].ln>>

\* the number of lines of an output: one more than MaxGrepLines, so that
\* three files can come in the wrong order
MaxRawLines == MaxGrepLines + 1

\* from_raw is called on some output; no line starts or ends with a blank,
\* so that raw.trim().lines() are the lines themselves
InitRaw ==
    /\ PatchIdle
    /\ hpc = "from_raw"
    /\ hits = <<>>
    /\ hits0 = <<>>
    /\ hfiles = <<>>
    /\ sec = NewGrepResult
    /\ op = NoOperator
    /\ left = 0
    /\ head0 = FALSE
    /\ \E n \in 0..MaxRawLines :
          \E its \in [1..n -> RawItems] :
             /\ OncePerLine(its)
             /\ gitems = its
             /\ graw = [k \in 1..n |-> RawLine(its[k])]
    /\ gmerge \in BOOLEAN
    /\ gi = 1
    /\ parsed = <<>>
    /\ gres = "none"
    /\ NoCollect
    /\ NoPipeline

\* filter_map(parse): one line of the output; a line parse_line rejects
\* is unwrapped, which panics
ParseRawLine ==
    /\ hpc = "from_raw"
    /\ gi <= Len(graw)
    /\ LET line == graw[gi]
           ret == parse_line(line)
       IN  IF line = GrepSeparator
           THEN /\ gi' = gi + 1
                /\ UNCHANGED <<parsed, gres, hpc>>
           ELSE IF ret.ok
           THEN /\ parsed' = Append(parsed, [filename |-> ret.filename,
                                             at |-> ret.at, level |-> ret.level])
                /\ gi' = gi + 1
                /\ UNCHANGED <<gres, hpc>>
           ELSE /\ gres' = "panic"
                /\ hpc' = "done"
                /\ UNCHANGED <<parsed, gi>>
    /\ UNCHANGED <<hits, hits0, hfiles, sec, op, left, head0, gitems, graw,
                   gmerge, collectVars, pipeVars, patchVars>>

\* collect() is over: lines.sort()
SortRawLines ==
    /\ hpc = "from_raw"
    /\ gi > Len(graw)
    /\ parsed' = SortLines(parsed)
    /\ gi' = 1
    /\ hpc' = "from_raw_push"
    /\ UNCHANGED <<hits, hits0, hfiles, sec, op, left, head0, gitems, graw,
                   gmerge, gres, collectVars, pipeVars, patchVars>>

\* one iteration of `for (filename, at, level) in lines`
PushRawLine ==
    /\ hpc = "from_raw_push"
    /\ gi <= Len(parsed)
    /\ LET bin == PushLine([files |-> hfiles, hits |-> hits], parsed[gi], gmerge)
       IN  /\ hfiles' = bin.files
           /\ hits' = bin.hits
    /\ gi' = gi + 1
    /\ UNCHANGED <<hpc, hits0, sec, op, left, head0, gitems, graw, gmerge,
                   parsed, gres, collectVars, pipeVars, patchVars>>

\* Ok(bin)
FromRawEnd ==
    /\ hpc = "from_raw_push"
    /\ gi > Len(parsed)
    /\ gres' = "Ok"
    /\ hpc' = "hits"
    /\ UNCHANGED <<hits, hits0, hfiles, sec, op, left, head0, gitems, graw,
                   gmerge, gi, parsed, collectVars, pipeVars, patchVars>>

NextRaw == ParseRawLine \/ SortRawLines \/ PushRawLine \/ FromRawEnd

\* GrepResult::from_raw on the output of one git grep
SpecRaw == InitRaw /\ [][NextRaw]_vars

(***************************************************************************)
(* Hunks::collect_hunks (src/src/hunks.rs).  The iterator                  *)
(* f.lines().enumerate().peekable() is the number x of lines it has        *)
(* yielded: it.peek() is Some((x, _)) while x is less than the length.     *)
(***************************************************************************)
\* the skip_while loop that stops at the first hit of the file only
SkipToFirst(content, x, from) ==
    IF x = 0 /\ x < Len(content) /\ x < from
    THEN IF from < Len(content) THEN from ELSE Len(content)
    ELSE x

\* the skip_while loop of collect_hunks_from_file: the iterator after it
RECURSIVE SkipWhile(_, _, _)
SkipWhile(content, x, from) ==
    IF x < Len(content) /\ x < from
    THEN SkipWhile(content, x + 1, from)
    ELSE x

\* Hunks::collect_lines: the lines taken and the iterator after them
RECURSIVE collect_lines(_, _, _)
collect_lines(content, x, n_lines) ==
    IF n_lines = 0 \/ x >= Len(content)
    THEN [acc |-> <<>>, x |-> x]
    ELSE LET rest == collect_lines(content, x + 1, n_lines - 1)
         IN  [acc |-> <<content[x + 1]>> \o rest.acc, x |-> rest.x]

\* the loop of collect_hunks_from_file over matches.hits[k..hi], Rust
\* indices, with the iterator at x
RECURSIVE CollectFrom(_, _, _, _, _, _)
CollectFrom(content, h, file_id, k, hi, x) ==
    IF k >= hi THEN <<>>
    ELSE LET hit == h[k + 1]
             x1 == SkipWhile(content, x, hit.from)
             got == collect_lines(content, x1, hit.n_lines)
         IN  <<<<file_id, hit.from, got.acc>>>>
             \o CollectFrom(content, h, file_id, k + 1, hi, got.x)

\* Hunks::collect_hunks_from_file: what it pushes to hunks
collect_hunks_from_file(fs, h, lo, hi) ==
    LET file_id == h[lo + 1].file_id
    IN  CollectFrom(fs[file_id + 1], h, file_id, lo, hi, 0)

\* the lines of a file of len lines: no two lines are the same
FileLines(len) == [k \in 1..len |-> <<"l">> \o FmtNum(k - 1)]

\* the lengths of the files on disk
FileLens == {0, 2, MaxFrom}

\* hits of one line or more, or of none as collect_head(0) leaves them,
\* that do not share a line
Disjoint(h) ==
    \A k \in 1..(Len(h) - 1) :
        h[k].file_id = h[k + 1].file_id
            => h[k].from + h[k].n_lines <= h[k + 1].from

\* collect_hunks is called on hits sorted by (file_id, from) that do not
\* overlap; the files are on disk
InitCollect ==
    /\ PatchIdle
    /\ hpc = "collect_hunks"
    /\ hfiles = <<FileA, FileB>>
    /\ \E n \in 0..MaxHits :
          \E ps \in SortedPlaces(n) :
             \E ns \in [1..n -> 0..MaxNLines] :
                /\ Disjoint(HitsAt(ps, ns))
                /\ hits = HitsAt(ps, ns)
    /\ hits0 = <<>>
    /\ sec = NewGrepResult
    /\ op = NoOperator
    /\ left = 0
    /\ head0 = FALSE
    /\ NoRaw
    /\ NoPipeline
    /\ \E lens \in [1..2 -> FileLens] :
          disk = [f \in 1..2 |-> FileLines(lens[f])]
    /\ ci = 1
    /\ cfrom = 0
    /\ chunks = <<>>
    /\ cres = "none"

\* one iteration of `for i in 1..matches.hits.len()`
GroupStep ==
    /\ hpc = "collect_hunks"
    /\ ci < Len(hits)
    /\ IF hits[cfrom + 1].file_id = hits[ci + 1].file_id
       THEN UNCHANGED <<chunks, cfrom>>
       ELSE /\ chunks' = chunks \o collect_hunks_from_file(disk, hits, cfrom, ci)
            /\ cfrom' = ci
    /\ ci' = ci + 1
    /\ UNCHANGED <<hpc, hits, hits0, hfiles, sec, op, left, head0, rawVars,
                   disk, cres, pipeVars, patchVars>>

\* the loop is over: the hits of the last file, then Ok(Hunks { .. })
GroupEnd ==
    /\ hpc = "collect_hunks"
    /\ ci >= Len(hits)
    /\ chunks' = IF cfrom < Len(hits)
                 THEN chunks \o collect_hunks_from_file(disk, hits, cfrom,
                                                        Len(hits))
                 ELSE chunks
    /\ cres' = "Ok"
    /\ hpc' = "done"
    /\ UNCHANGED <<hits, hits0, hfiles, sec, op, left, head0, rawVars,
                   disk, ci, cfrom, pipeVars, patchVars>>

NextCollect == GroupStep \/ GroupEnd

\* Hunks::collect_hunks on the hits collect_matches returns
SpecCollect == InitCollect /\ [][NextCollect]_vars

(***************************************************************************)
(* Properties.                                                             *)
(***************************************************************************)
\* some stored body line starts with the marker
SomeBodyStartsWith(marker) ==
    \E key \in DOMAIN raw_hunks :
        \E k \in DOMAIN raw_hunks[key] :
            /\ Len(marker) <= Len(raw_hunks[key][k])
            /\ \A c \in 1..Len(marker) : raw_hunks[key][k][c] = marker[c]

\* C1: round-trip identity: when from_grep succeeds and the user makes no
\* edit, read_halfdiff of what write_halfdiff wrote returns Ok("")
C1_RoundTripIdentity ==
    (pc = "done" /\ built = "Ok" /\ unedited) =>
        (result = "Ok" /\ patch = <<>>)

\* C2: marker discipline: when from_grep succeeds, no stored body line
\* starts with the final header_marker or the final hunk_marker, and in the
\* buffer write_halfdiff renders only the header lines and the hunk lines
\* start with a marker
C2_MarkerDiscipline ==
    built = "Ok" =>
        /\ ~SomeBodyStartsWith(header_marker)
        /\ ~SomeBodyStartsWith(hunk_marker)
        /\ \A j \in 1..Len(kinds) :
              kinds[j].kind = "body" =>
                  /\ ~StartsWith(buf[j], header_marker)
                  /\ ~StartsWith(buf[j], hunk_marker)

\* from_grep succeeded on lines that collide with both default markers,
\* and the buffer is written
C2_Witness ==
    /\ pc = "edit"
    /\ built = "Ok"
    /\ header_marker # DefaultHeader
    /\ hunk_marker # DefaultHunk
    /\ \E j \in 1..Len(kinds) : kinds[j].kind = "body" /\ StartsWith(buf[j], DefaultHeader)

\* C3: from_grep fails with the marker-collision error, and writes nothing,
\* exactly when a marker the user fixed starts some body line, or a default
\* marker with 16 characters appended still starts some body line; a
\* marker the user fixed is never extended
C3_MarkerCollision ==
    /\ header_opt # None => header_marker = header_opt[1]
    /\ hunk_opt # None => hunk_marker = hunk_opt[1]
    /\ built \in {"Ok", "MarkerCollision"} =>
          /\ (built = "MarkerCollision") <=>
                \/ header_opt # None /\ SomeBodyStartsWith(header_opt[1])
                \/ /\ header_opt = None
                   /\ SomeBodyStartsWith(DefaultHeader \o Repeat("+", CollisionBound))
                \/ hunk_opt # None /\ SomeBodyStartsWith(hunk_opt[1])
                \/ /\ hunk_opt = None
                   /\ SomeBodyStartsWith(DefaultHunk \o Repeat("@", CollisionBound))
          /\ built = "MarkerCollision" => (pc = "done" /\ buf = <<>> /\ result = "none")

\* from_grep failed on a default marker that was extended 16 times
C3_Witness ==
    /\ built = "MarkerCollision"
    /\ hunk_opt = None
    /\ hunk_marker = DefaultHunk \o Repeat("@", CollisionBound)
    /\ header_marker # DefaultHeader

\* the step flushes the current hunk: a header line, a hunk line or the end
Flushes ==
    /\ pc = "read"
    /\ \/ ri > Len(buf)
       \/ ri <= Len(buf) /\ StartsWith(buf[ri], header_marker)
       \/ ri <= Len(buf) /\ StartsWith(buf[ri], hunk_marker)

\* the key of the hunk being edited
FlushKey == <<lines.id, ParseNum(BeforeComma(lines.hunk))>>

PadAt(text, k) == IF k <= Len(text) THEN text[k] ELSE <<>>

\* the texts differ at some line, the shorter one padded with empty lines
PadDiffers(a, b) ==
    \E k \in 1..(IF Len(a) > Len(b) THEN Len(a) ELSE Len(b)) :
        PadAt(a, k) # PadAt(b, k)

\* C4: hunk emission rule: a flushed hunk is emitted if and only if its
\* edited body differs from the original lines, the shorter of the two
\* padded with empty strings
C4_EmissionRule ==
    [][ (Flushes /\ ~la_is_empty(lines) /\ FlushKey \in DOMAIN raw_hunks) =>
            ((Len(emitted') = Len(emitted) + 1)
                <=> PadDiffers(lines.buf, raw_hunks[FlushKey])) ]_vars

\* the header of a unified-diff hunk
UnifiedHeader(orig_from, orig_len, new_from, edited_len) ==
    <<"@", "@", " ", "-">> \o orig_from \o <<",">> \o orig_len
        \o <<" ", "+">> \o new_from \o <<",">> \o edited_len \o <<" ", "@", "@">>

\* the block of a changed hunk, as the claim has it, for the value of
\* orig_from: the header, the original lines with '-', the edited with '+'
ExpectedBlock(e, orig_from) ==
    LET original == raw_hunks[<<e.id, ParseNum(BeforeComma(e.hunk))>>]
    IN  << UnifiedHeader(FmtNum(orig_from), FmtNum(Len(original)),
                         FmtAsUsize(orig_from + e.pos_diff), FmtNum(Len(e.body))) >>
           \o [k \in 1..Len(original) |-> <<"-">> \o original[k]]
           \o [k \in 1..Len(e.body) |-> <<"+">> \o e.body[k]]

\* the block is a run of successive lines of the text
Within(block, text) ==
    \E off \in 0..(Len(text) - Len(block)) :
        SubSeq(text, off + 1, off + Len(block)) = block

C6_CoordinateLaw ==
    \A k \in 1..(Len(emitted) - 1) :
        LET H1 == emitted[k]
            H2 == emitted[k + 1]
        IN  H1.section = H2.section =>
                /\ (H1.new_from < 0) = (H2.new_from < 0)
                /\ H2.new_from - H1.new_from =
                      H2.orig_from - H1.orig_from + (H1.edited_len - H1.orig_len)

\* the line is a header line that names a file from_grep has not seen
UnknownHeader(l) ==
    /\ StartsWith(l, header_marker)
    /\ \A k \in 1..Len(files) : files[k] # AfterMarker(l, header_marker)

\* C7: when read_halfdiff meets a header line whose file name is not in
\* the file table, it returns the UnknownFile error
C7_UnknownFile ==
    (built = "Ok" /\ ri > 1 /\ UnknownHeader(cur)) => result = "UnknownFile"

\* the key of the first hunk of the file
FirstKey(id) ==
    CHOOSE key \in DOMAIN raw_hunks :
        key[1] = id /\ \A o \in DOMAIN raw_hunks : o[1] = id => key[2] <= o[2]

C9_NoOverlap ==
    hpc = "done" =>
        \A j, k \in 1..Len(hits) :
            (j < k /\ hits[j].file_id = hits[k].file_id) =>
                hits[j].from + hits[j].n_lines < hits[k].from

\* three hits, the first two touching, became two hits of one file
C9_Witness ==
    /\ hpc = "done"
    /\ Len(hits0) = 3
    /\ Len(hits) = 2
    /\ hits[1].file_id = hits[2].file_id
    /\ hits0[1].from + hits0[1].n_lines = hits0[2].from

\* the hit covers the line of the file
Covers(h, file_id, line) ==
    h.file_id = file_id /\ h.from <= line /\ line < h.from + h.n_lines

\* C10: every line a hit covered before filter_overlaps is covered by a
\* hit afterwards: a merged hit ends at the larger of the two ends
C10_MergeSpan ==
    hpc = "done" =>
        \A k \in 1..Len(hits0) :
            \A line \in hits0[k].from..(hits0[k].from + hits0[k].n_lines - 1) :
                \E j \in 1..Len(hits) : Covers(hits[j], hits0[k].file_id, line)

\* the first hunk emitted in its file section
FirstOfSection(k) ==
    \A j \in 1..(k - 1) : emitted[j].section # emitted[k].section

\* C19: per-file reset of pos_diff: the first hunk emitted in a file section
\* has new_from = orig_from, whatever was edited in the sections before
C19_PerFileReset ==
    \A k \in 1..Len(emitted) :
        FirstOfSection(k) => emitted[k].new_from = emitted[k].orig_from

RECURSIVE Flatten(_)
Flatten(texts) ==
    IF texts = <<>> THEN <<>> ELSE texts[1] \o Flatten(Tail(texts))

\* the hunk differs from its original lines, by the padded comparison
IsChanged(r) == PadDiffers(r.body, r.original)

\* the hunk is of the file section
InSection(r, s) == r.section = s

\* the block of a file section: nothing when no hunk of it is changed, else
\* the header of its file and the blocks of its changed hunks, in order
SectionBlock(s) ==
    LET Mine(r) == InSection(r, s) /\ IsChanged(r)
        changed == SelectSeq(flushed, Mine)
        path == files[changed[1].id]
    IN  IF changed = <<>> THEN <<>>
        ELSE << <<"-", "-", "-", " ", "a", "/">> \o path,
                <<"+", "+", "+", " ", "b", "/">> \o path >>
             \o Flatten([k \in 1..Len(changed) |-> changed[k].block])

\* C20: patch structure: the patch read_halfdiff returns is, in the order
\* of the buffer, one block per file section with a changed hunk: the
\* header `--- a/<path>`, `+++ b/<path>`, then the changed hunks of the
\* section; a section without a changed hunk gives nothing
C20_PatchStructure ==
    result = "Ok" => patch = Flatten([s \in 1..section |-> SectionBlock(s)])

\* the hits of the secondary a hit may be extended to: of the same path,
\* at or after the hit, of the same level
Targets(x) ==
    { j \in 1..Len(sec.hits) :
        /\ sec.files[sec.hits[j].file_id + 1] = hfiles[x.file_id + 1]
        /\ sec.hits[j].from >= x.from
        /\ sec.hits[j].level = x.level }

\* the earliest of them
Target(x) ==
    sec.hits[CHOOSE j \in Targets(x) :
                 \A j2 \in Targets(x) : sec.hits[j].from <= sec.hits[j2].from]

\* C11: extend_to_another: every primary hit with a hit of the secondary in
\* the same file, at or after it and of its level, gets
\* n_lines = target.from + target.n_lines - primary.from for the earliest
\* such target, whatever the other primary hits are
C11_ExtendTarget ==
    op.name = "extend_to_another" =>
        /\ Len(hits) = Len(hits0)
        /\ \A k \in 1..Len(hits0) :
              Targets(hits0[k]) # {} =>
                  hits[k].n_lines =
                      Target(hits0[k]).from + Target(hits0[k]).n_lines - hits0[k].from

\* C12: extend_by_lines(u, d): for every hit new.from = max(0, old.from - u)
\* and new.from + new.n_lines = old.from + old.n_lines + d; file_id and
\* level stay and no hit is added or removed
C12_ExtendByLines ==
    op.name = "extend_by_lines" =>
        /\ Len(hits) = Len(hits0)
        /\ \A k \in 1..Len(hits0) :
              /\ hits[k].from = (IF hits0[k].from - op.up > 0
                                 THEN hits0[k].from - op.up ELSE 0)
              /\ hits[k].from + hits[k].n_lines =
                    hits0[k].from + hits0[k].n_lines + op.down
              /\ hits[k].file_id = hits0[k].file_id
              /\ hits[k].level = hits0[k].level

\* hits of several lines were extended, one of them up to line 0 only
C12_Witness ==
    /\ op.name = "extend_by_lines"
    /\ Len(hits0) = 2
    /\ hits0[1].from < op.up
    /\ hits0[2].from > op.up
    /\ hits0[1].n_lines > 1

\* C13: collect_head(n): afterwards there is exactly one hit
\* (file_id, from = 0, n_lines = n, level = 0) for each file that had a
\* hit, and no other hit
C13_CollectHead ==
    op.name = "collect_head" =>
        /\ \A k0 \in 1..Len(hits0) :
              \E k \in 1..Len(hits) :
                 /\ hits[k] = [file_id |-> hits0[k0].file_id, from |-> 0,
                               n_lines |-> op.n_lines, level |-> 0]
                 /\ \A k2 \in 1..Len(hits) :
                       hits[k2].file_id = hits[k].file_id => k2 = k
        /\ \A k \in 1..Len(hits) :
              \E k0 \in 1..Len(hits0) : hits0[k0].file_id = hits[k].file_id

\* the path of the hit is a path of the secondary
InSecondary(x) ==
    \E k \in 1..Len(sec.files) : sec.files[k] = hfiles[x.file_id + 1]

\* the hits that filter_files is to keep
Retained(x) == IF op.invert THEN ~InSecondary(x) ELSE InSecondary(x)

\* C14: filter_files(secondary, invert): the hits afterwards are the hits
\* before, in their order and unchanged, whose path is (invert = false) or
\* is not (invert = true) equal to a path of secondary.files
C14_FilterFiles ==
    op.name = "filter_files" => hits = SelectSeq(hits0, Retained)

\* the only file of the secondary has another file_id in the primary, and
\* the hits of that file were kept, the others dropped
C14_Witness ==
    /\ op.name = "filter_files"
    /\ ~op.invert
    /\ sec.files = <<FileB>>
    /\ Len(hits0) = 2
    /\ Len(hits) = 1
    /\ hits[1].file_id = 1

\* hits in the order of (files[file_id], from), every file_id in the table
SortedValid ==
    /\ \A k \in 1..Len(hits) : hits[k].file_id + 1 \in DOMAIN hfiles
    /\ \A j, k \in 1..Len(hits) :
          j < k =>
              LET c == PathCmp(hfiles[hits[j].file_id + 1], hfiles[hits[k].file_id + 1])
              IN  c < 0 \/ (c = 0 /\ hits[j].from <= hits[k].from)

\* C15, as claimed: after any sequence of the operators the hits are in
\* order, every file_id is in the table, and every hit has n_lines >= 1
\* unless the operator called last is collect_head(0)
C15_AlgebraInvariantLastHead ==
    /\ SortedValid
    /\ (op.name = "collect_head" /\ op.n_lines = 0)
          \/ \A k \in 1..Len(hits) : hits[k].n_lines >= 1

\* C15, amended: after any sequence of the operators the hits are in order,
\* every file_id is in the table, and every hit has n_lines >= 1 unless
\* collect_head(0) was called at some point of the sequence
C15_AlgebraInvariant ==
    /\ SortedValid
    /\ head0 \/ \A k \in 1..Len(hits) : hits[k].n_lines >= 1

\* two operators were called, the first of them collect_head(0), and two
\* hits are left
C15_Witness ==
    /\ left = 0
    /\ head0
    /\ op.name = "extend_by_lines"
    /\ Len(hits) = 2
    /\ hits[1].file_id = hits[2].file_id

\* the lines of the output that report a hit
HitItems == { k \in DOMAIN gitems : gitems[k].kind = "hit" }

\* the path of a hit of the result
PathOf(x) == hfiles[x.file_id + 1]

\* C16: whatever the order of the lines of the output, the result of
\* from_raw has pairwise distinct files ascending in byte order, hits
\* ascending by (files[file_id], from), every file_id an index of files
\* naming the file of the line, and every from the line number minus one
C16_FromRawWellFormed ==
    gres = "Ok" =>
        /\ \A j, k \in DOMAIN hfiles :
              j < k => PathCmp(hfiles[j], hfiles[k]) = -1
        /\ \A k \in DOMAIN hits : hits[k].file_id + 1 \in DOMAIN hfiles
        /\ \A j, k \in DOMAIN hits :
              j < k =>
                 \/ PathCmp(PathOf(hits[j]), PathOf(hits[k])) = -1
                 \/ /\ PathOf(hits[j]) = PathOf(hits[k])
                    /\ hits[j].from <= hits[k].from
        /\ \A k \in DOMAIN hits :
              \E m \in HitItems :
                 /\ gitems[m].file = PathOf(hits[k])
                 /\ gitems[m].ln - 1 = hits[k].from
        /\ \A m \in HitItems :
              \E k \in DOMAIN hits :
                 /\ gitems[m].file = PathOf(hits[k])
                 /\ hits[k].from <= gitems[m].ln - 1
                 /\ gitems[m].ln - 1 < hits[k].from + hits[k].n_lines
                 /\ ~gmerge => hits[k].from = gitems[m].ln - 1
        /\ ~gmerge => Len(hits) = Cardinality(HitItems)

\* three files reported last to first, and a result of from_raw
C16_Witness ==
    /\ gres = "Ok"
    /\ Len(gitems) = 3
    /\ gitems[1].kind = "hit" /\ gitems[1].file = FileB
    /\ gitems[2].kind = "hit" /\ gitems[2].file = FileAB
    /\ gitems[3].kind = "hit" /\ gitems[3].file = FileA
    /\ hfiles = <<FileA, FileAB, FileB>>
    /\ Len(hits) = 3

\* C17: once from_raw is over on an output with a line other than the
\* separator that lacks a NUL or whose number is no decimal number, it has
\* returned the error MalformedGrepLine (and no GrepResult)
C17_MalformedGrepLine ==
    (gres # "none" /\ \E k \in DOMAIN gitems : gitems[k].kind = "bad")
        => gres = "MalformedGrepLine"

\* the lines of a file at the indices [from, min(from + n_lines, length))
LinesOf(content, from, n_lines) ==
    SubSeq(content, from + 1,
           IF from + n_lines < Len(content) THEN from + n_lines
           ELSE Len(content))

\* C18: for hits sorted by (file_id, from) that do not overlap, collect_hunks
\* returns Ok with one triple (file_id, from, lines) per hit, in the order
\* of the hits, lines being the lines of the file at the indices
\* [from, min(from + n_lines, length)): a hit past the end of the file is
\* cut short, down to no line at all, and is no error
C18_HunkMaterialization ==
    /\ cres \in {"none", "Ok"}
    /\ cres = "Ok" =>
          /\ Len(chunks) = Len(hits)
          /\ \A k \in DOMAIN hits :
                chunks[k] = <<hits[k].file_id, hits[k].from,
                              LinesOf(disk[hits[k].file_id + 1],
                                      hits[k].from, hits[k].n_lines)>>

\* two hits of the first file, the second cut short by the end of the
\* file, and a hit of the second file past its end
C18_Witness ==
    /\ cres = "Ok"
    /\ Len(hits) = 3
    /\ hits[1].file_id = 0 /\ hits[1].from > 0 /\ hits[1].n_lines > 0
    /\ hits[2].file_id = 0 /\ hits[2].n_lines > Len(chunks[2][3])
    /\ chunks[2][3] # <<>>
    /\ hits[3].file_id = 1 /\ hits[3].n_lines > 0
    /\ chunks[3][3] = <<>>
    /\ disk[2] # <<>>

\* the marker is the default followed by k copies of the character c, k
\* the smallest number for which no body line starts with the marker
SmallestExtension(marker, default, c) ==
    \E k \in 0..CollisionBound :
        /\ marker = default \o Repeat(c, k)
        /\ ~SomeBodyStartsWith(marker)
        /\ \A j \in 0..(k - 1) : SomeBodyStartsWith(default \o Repeat(c, j))

\* C21: when from_grep succeeds, a marker left at its default is the
\* default followed by k copies of its extension character ('+' for the
\* header marker, '@' for the hunk marker), k <= 16 the smallest number for
\* which no body line starts with the marker; k = 0 without a collision
C21_CollisionAvoidanceResult ==
    built = "Ok" =>
        /\ header_opt = None =>
              /\ SmallestExtension(header_marker, DefaultHeader, "+")
              /\ ~SomeBodyStartsWith(DefaultHeader) => header_marker = DefaultHeader
        /\ hunk_opt = None =>
              /\ SmallestExtension(hunk_marker, DefaultHunk, "@")
              /\ ~SomeBodyStartsWith(DefaultHunk) => hunk_marker = DefaultHunk

\* from_grep succeeded with the header marker extended 16 times and the
\* hunk marker extended once
C21_Witness ==
    /\ built = "Ok"
    /\ header_opt = None
    /\ hunk_opt = None
    /\ header_marker = DefaultHeader \o Repeat("+", CollisionBound)
    /\ hunk_marker = DefaultHunk \o <<"@">>

\* C22: extend_to_another leaves a primary hit unchanged in its four
\* fields when the secondary has no hit in its file, at or after its from
\* and of its level, whatever other hits the secondary has; and a hit that
\* is changed ends where such a hit of the secondary ends
C22_ExtendNoTarget ==
    op.name = "extend_to_another" =>
        /\ Len(hits) = Len(hits0)
        /\ \A k \in 1..Len(hits0) :
              /\ Targets(hits0[k]) = {} => hits[k] = hits0[k]
              /\ hits[k] # hits0[k] =>
                    /\ hits[k] = [hits0[k] EXCEPT !.n_lines = hits[k].n_lines]
                    /\ \E j \in Targets(hits0[k]) :
                          hits[k].from + hits[k].n_lines =
                              sec.hits[j].from + sec.hits[j].n_lines

\* a hit was extended, and a hit of another level was left as it was
\* though the secondary has a hit after it in its file
C22_Witness ==
    /\ op.name = "extend_to_another"
    /\ Len(hits0) = 2
    /\ hits[1] # hits0[1]
    /\ hits[2] = hits0[2]
    /\ Targets(hits0[2]) = {}
    /\ \E j \in 1..Len(sec.hits) :
          /\ sec.files[sec.hits[j].file_id + 1] = hfiles[hits0[2].file_id + 1]
          /\ sec.hits[j].from >= hits0[2].from
          /\ sec.hits[j].level # hits0[2].level

\* C27: extend_to_another never shrinks a hit: every hit, also one of
\* several lines, has afterwards the n_lines it had or more
C27_ExtendNeverShrinks ==
    op.name = "extend_to_another" =>
        /\ Len(hits) = Len(hits0)
        /\ \A k \in 1..Len(hits0) : hits[k].n_lines >= hits0[k].n_lines

\* the call of an operator, if the option is given
CallIf(present, name, args) ==
    IF present THEN <<[name |-> name, args |-> args]>> ELSE <<>>

\* the calls collect_matches is to make for the options, in order
ExpectedCalls ==
    LET o == hunk_opts
        b == IF o.before = None THEN 0 ELSE o.before[1]
        a == IF o.after = None THEN 0 ELSE o.after[1]
    IN  CallIf(o.with # None, "filter_files", <<o.with[1], FALSE>>)
        \o CallIf(o.without # None, "filter_files", <<o.without[1], TRUE>>)
        \o CallIf(o.head # None, "collect_head", <<o.head[1]>>)
        \o CallIf(o.to # None, "extend_to_another", <<o.to[1]>>)
        \o (IF o.context # None
            THEN CallIf(TRUE, "extend_by_lines", <<o.context[1], o.context[1]>>)
            ELSE CallIf(b # 0 \/ a # 0, "extend_by_lines", <<b, a>>))
        \o CallIf(TRUE, "filter_overlaps", <<>>)

\* C23: collect_matches calls filter_files(with, false),
\* filter_files(without, true), collect_head, extend_to_another,
\* extend_by_lines and filter_overlaps in this order, each of the first
\* five only if its option is given (extend_by_lines with
\* (context, context) if --context is given, else with (before, after),
\* a call that would extend by no line being left out), filter_overlaps
\* always and last; the hits returned do not overlap
C23_PipelineOrder ==
    /\ Len(calls) <= Len(ExpectedCalls)
    /\ calls = SubSeq(ExpectedCalls, 1, Len(calls))
    /\ hpc = "returned" =>
          /\ calls = ExpectedCalls
          /\ \A j, k \in 1..Len(hits) :
                (j < k /\ hits[j].file_id = hits[k].file_id) =>
                    hits[j].from + hits[j].n_lines < hits[k].from

\* every option but --context is given: the five calls were made and the
\* hits of a file were merged
C23_Witness ==
    /\ hpc = "returned"
    /\ Len(calls) = 6
    /\ hunk_opts.context = None
    /\ Len(hits0) = 2
    /\ Len(hits) = 1

\* the line starts with neither marker
IsBodyLine(l) == ~StartsWith(l, header_marker) /\ ~StartsWith(l, hunk_marker)

\* C24: read_halfdiff appends every line that starts with neither the
\* header marker nor the hunk marker to the edited body of the current
\* hunk and does not fail on it, wherever the line is in the buffer
C24_BodyLineHandling ==
    [][ (pc = "read" /\ ri <= Len(buf) /\ IsBodyLine(buf[ri])) =>
            /\ result' = "none"
            /\ lines'.buf = Append(lines.buf, buf[ri]) ]_vars

\* C25: when read_halfdiff flushes a hunk whose coordinate is no number or
\* names no original hunk of the current file, it ends with an error
\* value: it does not panic, does not go on, and emits no hunk for it
C25_InvalidHunkCoordinate ==
    [][ (Flushes /\ ~la_is_empty(lines) /\ FlushKey \notin DOMAIN raw_hunks) =>
            /\ result' \notin {"none", "Ok", "panic"}
            /\ emitted' = emitted ]_vars

\* C26: for every edited buffer and every emitted hunk orig_from + pos_diff
\* is 0 or more when the hunk is emitted, so that the conversion to usize
\* does not wrap
C26_NonNegativeNewFrom ==
    \A k \in 1..Len(emitted) :
        /\ emitted[k].orig_from + emitted[k].pos_diff >= 0
        /\ emitted[k].new_from = emitted[k].orig_from + emitted[k].pos_diff

\* C28: for every configuration of the markers from_grep accepts, also
\* markers the user gave, read_halfdiff takes every line write_halfdiff
\* wrote for what it was written as: header line, hunk line or body line
C28_StructuralLines ==
    (built = "Ok" /\ unedited) =>
        \A j \in 1..Len(kinds) : LineKind(buf[j]) = kinds[j].kind

====
